---- MODULE Spec2Model ----
(***************************************************************************)
(* Model of the candy-machine deployment pipeline of joaotav/mpl-core      *)
(* (src/unnamed/part_003): main() and checkCandyMachine(), driven against  *)
(* a ledger whose submissions and reads may fail.                          *)
(*                                                                         *)
(* A ledger call takes two actions: Submit starts it, and the action named *)
(* after the call is its outcome together with everything main() does with *)
(* that outcome up to the next call (markers written to the console, loop  *)
(* counters, the catch block).  Step 3 awaits twice, the call that builds  *)
(* the transaction and then its submission: each await has its own pair.   *)
(*                                                                         *)
(* Further specifications take checkCandyMachine, calculateCost and        *)
(* transferNFT on their own, and the collection scripts                    *)
(* (src/core-collection.ts, src/create-collection.ts,                      *)
(* src/unnamed/part_000) beside the pipeline.                              *)
(***************************************************************************)
EXTENDS Integers, Sequences, FiniteSets

VARIABLES
    pc,         \* position of main(): the ledger call that is awaited next
    ledger,     \* on-ledger state: collection, candy machine account, assets
    log,        \* console output, in order
    calls,      \* ledger calls made so far, in order, with their outcomes
    i,          \* loop variable of the mint loop
    minted,     \* the mint loop's count of confirmed mints
    checkArgs,  \* arguments and fetch outcome of the checkCandyMachine call
                \* (the call being made under SpecVerify, the latest under Spec)
    inflight,   \* ledger calls started and not yet returned, oldest first
    wallet,     \* state of the signing-key file the script loads
    fatal,      \* the error that ended the script before main(), if any
    script,     \* the script that is run
    cost,       \* a calculateCost call: the two balances and what it returned
    transfer,   \* a transferNFT call: its arguments and the balance it read first
    createIx,   \* step 3: what await create(umi, {...}) came to, once it settled
    env         \* process.env: HOME and USERPROFILE ("" when unset)

vars == <<pc, ledger, log, calls, i, minted, checkArgs, inflight, wallet, fatal,
          script, cost, transfer, createIx, env>>

-----------------------------------------------------------------------------
(* Identities.  A umi PublicKey is a base58 string; toString() of a string *)
(* is that string, so addresses are compared as strings.                   *)

keypair == "keypair"
collectionMint == "collectionMint"
candyMachine == "candyMachine"

\* An address that is none of the pipeline's, for verifier inputs.
OtherAddress == "other"

ToString(publicKey) == publicKey

-----------------------------------------------------------------------------
(* Values thrown by a failed await.  A JavaScript throw carries any value: *)
(* an Error (with a message, possibly empty) or something that is not an   *)
(* Error at all.                                                           *)

ErrorMessages == {"", "Transaction simulation failed"}

NewError(message) == [isError |-> TRUE, message |-> message]

NonError == [isError |-> FALSE, message |-> ""]

Thrown == {NewError(m) : m \in ErrorMessages} \cup {NonError}

\* The value of a try block that ran to its end.
NoThrow == [isError |-> FALSE, message |-> "<none>"]

\* umi's fetch of an account that does not exist throws AccountNotFoundError,
\* a subclass of Error.
AccountNotFoundError == NewError("The account was not found")

-----------------------------------------------------------------------------
(* Numbers.  The account's itemsRedeemed is a bigint, itemsLoaded a number. *)

BigInt(n) == [bigint |-> n]

\* Number(x) of a bigint within the safe integer range.
Number(x) == x.bigint

\* Program constants of main().
itemsAvailable == 3

numMints == 3

configLines == <<"1.json", "2.json", "3.json">>

\* The step argument of a checkCandyMachine call that passes none.
NoStep == -1

\* Range of the counters the verifier is tried on.
MaxCount == 3

-----------------------------------------------------------------------------
(* The ledger.                                                             *)

NoAccount == [exists |-> FALSE]

Account(available, loaded, redeemed, authority, collection) ==
    [exists |-> TRUE, itemsAvailable |-> available, itemsLoaded |-> loaded,
     itemsRedeemed |-> BigInt(redeemed), authority |-> authority,
     collectionMint |-> collection]

\* The fee payer's balance before the run, in base units of one fee.
InitialBalance == 20

EmptyLedger ==
    [collection |-> FALSE, cm |-> NoAccount, assets |-> {}, balance |-> InitialBalance]

\* A confirmed submission is paid for by the fee payer.
Pay(l) == [l EXCEPT !.balance = @ - 1]

\* What an awaited ledger call can come to: it returns (only when the ledger
\* accepts the operation), or it throws; any call can throw (the network, the
\* fee payer's balance, the simulation).
Outcomes(accepted) ==
    (IF accepted THEN {[ok |-> TRUE, thrown |-> NoThrow]} ELSE {})
        \cup {[ok |-> FALSE, thrown |-> t] : t \in Thrown}

CanCreateCollection(l) == ~l.collection

DoCreateCollection(l) == Pay([l EXCEPT !.collection = TRUE])

\* The candy machine is bound to an existing collection, at a fresh address.
CanCreate(l) == l.collection /\ ~l.cm.exists

DoCreate(l, available, authority, collection) ==
    Pay([l EXCEPT !.cm = Account(available, 0, 0, authority, collection)])

CanAddConfigLines(l, index, lines) ==
    l.cm.exists /\ index + Len(lines) <= l.cm.itemsAvailable

\* Lines are loaded from index 0 on; itemsLoaded counts the lines that are set.
DoAddConfigLines(l, index, lines) ==
    Pay([l EXCEPT !.cm.itemsLoaded =
            IF index + Len(lines) > @ THEN index + Len(lines) ELSE @])

\* A mint is accepted only from a fully loaded machine with supply left.
CanMintUnchecked(l) == l.cm.exists

CanMint(l) ==
    /\ l.cm.exists
    /\ l.cm.itemsLoaded = l.cm.itemsAvailable
    /\ Number(l.cm.itemsRedeemed) < l.cm.itemsLoaded

DoMint(l, asset) ==
    Pay([l EXCEPT !.cm.itemsRedeemed = BigInt(Number(@) + 1),
                  !.assets = @ \cup {[asset |-> asset,
                                      collection |-> l.cm.collectionMint]}])

CanDelete(l) == l.cm.exists

\* An asset is created into an existing collection, at a fresh address.
CanCreateAsset(l, address) ==
    l.collection /\ \A a \in l.assets : a.asset # address

\* The asset goes to the owner named in the call, or to the authority that
\* mints it when none is named ("" stands for the argument left out).
DoCreateAsset(l, address, collection, owner, authority) ==
    Pay([l EXCEPT !.assets = @ \cup {[asset |-> address, collection |-> collection,
                                       owner |-> IF owner # "" THEN owner
                                                               ELSE authority]}])

CanAddPlugin(l, address) == \E a \in l.assets : a.asset = address

DoAddPlugin(l, address) == Pay(l)

\* A transfer is signed by the asset's owner and names the asset's collection.
CanTransfer(l, address, collection, authority) ==
    \E a \in l.assets :
        a.asset = address /\ a.collection = collection /\ a.owner = authority

DoTransfer(l, address, newOwner) ==
    Pay([l EXCEPT !.assets = {IF a.asset = address THEN [a EXCEPT !.owner = newOwner]
                                                     ELSE a : a \in @}])

\* getProgramAccounts filtered by one field.
AssetsWhere(l, field, value) == {a \in l.assets : a[field] = value}

DoDelete(l) == Pay([l EXCEPT !.cm = NoAccount])

\* fetchCandyMachine: the account, or a throw (of AccountNotFoundError when the
\* account is absent, of anything when the read itself fails).
FetchOutcomes(l) ==
    (IF l.cm.exists
        THEN {[ok |-> TRUE, account |-> l.cm, thrown |-> NoThrow, cause |-> "none"]}
        ELSE {[ok |-> FALSE, account |-> NoAccount,
               thrown |-> AccountNotFoundError, cause |-> "absent"]})
    \cup {[ok |-> FALSE, account |-> NoAccount, thrown |-> t, cause |-> "network"] :
            t \in Thrown}

\* Remaining supply of the candy machine as the ledger has it.
RemainingSupply(l) ==
    IF l.cm.exists THEN l.cm.itemsLoaded - Number(l.cm.itemsRedeemed) ELSE 0

-----------------------------------------------------------------------------
(* Console markers.                                                        *)

\* One console.log line: the step index that prefixes it (0: none), its mark
\* ("ok" for the check mark, "fail" for the cross, "none"), the fixed text and
\* the interpolated value.
Line(step, mark, text, detail) ==
    [step |-> step, mark |-> mark, text |-> text, detail |-> detail]

SuccessText(step) ==
    CASE step = 2 -> "Created collection"
      [] step = 3 -> "Created Candy Machine"
      [] step = 4 -> "Added items to the Candy Machine"
      [] step = 6 -> "Minted NFTs"
      [] step = 8 -> "Deleted the Candy Machine"

FailureText(step) ==
    CASE step = 2 -> "Error creating collection."
      [] step = 3 -> "Error creating Candy Machine."
      [] step = 4 -> "Error adding items to the Candy Machine."
      [] step = 6 -> "Error minting NFTs."
      [] step = 8 -> "Error deleting the Candy Machine."

\* The last statement of a step's try block.
SuccessMarker(step, detail) == Line(step, "ok", SuccessText(step), detail)

\* A step's catch block: a fixed line; the caught value is not used.
FailureMarkerShifted(step, thrown) == Line(step + 1, "fail", FailureText(step), "")

FailureMarker(step, thrown) == Line(step, "fail", FailureText(step), "")

\* The marker of a step's try/catch: the success line ends the try block, the
\* failure line is the catch block.
MarkerSuccessAfterTry(step, result, detail) ==
    (IF result.ok THEN <<>> ELSE <<FailureMarker(step, result.thrown)>>)
        \o <<SuccessMarker(step, detail)>>

Marker(step, result, detail) ==
    IF result.ok THEN <<SuccessMarker(step, detail)>>
                 ELSE <<FailureMarker(step, result.thrown)>>

\* Where main() goes on after a step's try/catch statement: to the statement
\* that follows it, whether the try block ended or the catch block ran.
FollowingStep(step) ==
    CASE step = 2 -> "createBuild"
      [] step = 3 -> "addConfigLines"
      [] step = 4 -> "checkCandyMachine5"
      [] step = 5 -> "mintV1"
      [] step = 6 -> "checkCandyMachine7"
      [] step = 7 -> "deleteCandyMachine"
      [] step = 8 -> "done"

AfterStepRethrow(step, result) ==
    IF result.ok THEN FollowingStep(step) ELSE "done"

\* The position of main() at which a step begins.
PositionOf(step) == IF step = 2 THEN "createCollection" ELSE FollowingStep(step - 1)

AfterStepRetry(step, result) ==
    IF result.ok THEN FollowingStep(step) ELSE PositionOf(step)

AfterStep(step, result) == FollowingStep(step)

\* The step whose ledger call is awaited at a position of main() (1: the
\* wallet is being loaded or could not be, 9: main() has ended).
StepOf(p) ==
    CASE p \in {"loadWallet", "aborted"} -> 1
      [] p = "createCollection" -> 2
      [] p \in {"createBuild", "create"} -> 3
      [] p = "addConfigLines" -> 4
      [] p = "checkCandyMachine5" -> 5
      [] p = "mintV1" -> 6
      [] p = "checkCandyMachine7" -> 7
      [] p = "deleteCandyMachine" -> 8
      [] OTHER -> 9

Call(step, op, result) ==
    [step |-> step, op |-> op, ok |-> result.ok, thrown |-> result.thrown]

\* The collection-creation call, with the plugins it submits.
CollectionCall(step, op, result, plugins) ==
    [step |-> step, op |-> op, ok |-> result.ok, thrown |-> result.thrown,
     plugins |-> plugins]

-----------------------------------------------------------------------------
(* checkCandyMachine.                                                       *)

Expected(loaded, redeemed, authority, collection) ==
    [itemsLoaded |-> loaded, itemsRedeemed |-> redeemed,
     authority |-> authority, collection |-> collection]

MsgItemsRedeemed == "Incorrect number of items available in the Candy Machine."
MsgItemsLoaded == "Incorrect number of items loaded in the Candy Machine."
MsgAuthority == "Incorrect authority in the Candy Machine."
MsgCollection == "Incorrect collection in the Candy Machine."

\* The four comparisons of the try block, in the order of the code: the value
\* the first failing one throws, or NoThrow when all pass.
CompareLoadedFirst(loadedCandyMachine, expected) ==
    IF loadedCandyMachine.itemsLoaded # expected.itemsLoaded
        THEN NewError(MsgItemsLoaded)
    ELSE IF Number(loadedCandyMachine.itemsRedeemed) # expected.itemsRedeemed
        THEN NewError(MsgItemsRedeemed)
    ELSE IF ToString(loadedCandyMachine.authority) # ToString(expected.authority)
        THEN NewError(MsgAuthority)
    ELSE IF ToString(loadedCandyMachine.collectionMint) # ToString(expected.collection)
        THEN NewError(MsgCollection)
    ELSE NoThrow

CompareSkipsCollection(loadedCandyMachine, expected) ==
    IF Number(loadedCandyMachine.itemsRedeemed) # expected.itemsRedeemed
        THEN NewError(MsgItemsRedeemed)
    ELSE IF loadedCandyMachine.itemsLoaded # expected.itemsLoaded
        THEN NewError(MsgItemsLoaded)
    ELSE IF ToString(loadedCandyMachine.authority) # ToString(expected.authority)
        THEN NewError(MsgAuthority)
    ELSE NoThrow

Compare(loadedCandyMachine, expected) ==
    IF Number(loadedCandyMachine.itemsRedeemed) # expected.itemsRedeemed
        THEN NewError(MsgItemsRedeemed)
    ELSE IF loadedCandyMachine.itemsLoaded # expected.itemsLoaded
        THEN NewError(MsgItemsLoaded)
    ELSE IF ToString(loadedCandyMachine.authority) # ToString(expected.authority)
        THEN NewError(MsgAuthority)
    ELSE IF ToString(loadedCandyMachine.collectionMint) # ToString(expected.collection)
        THEN NewError(MsgCollection)
    ELSE NoThrow

\* The try block: the fetch throws, or the comparisons run on what it returned.
TryBlockFetchOptional(fetched, expected) ==
    IF fetched.ok THEN Compare(fetched.account, expected) ELSE NoThrow

TryBlock(fetched, expected) ==
    IF fetched.ok THEN Compare(fetched.account, expected) ELSE fetched.thrown

\* step && ...: nothing is written for a step that is omitted or 0.
TruthyUnlessOmitted(step) == step # NoStep

Truthy(step) == step # NoStep /\ step # 0

TextCorrect == "Candy Machine has the correct configuration."
TextIncorrect == "Candy Machine incorrect configuration"
TextFetchError == "Error fetching the Candy Machine."

\* The lines checkCandyMachine writes.  The catch block tells a mismatch from a
\* failed fetch by whether the caught value is an Error.
checkCandyMachine(fetched, expected, step) ==
    LET caught == TryBlock(fetched, expected)
    IN  IF ~Truthy(step) THEN <<>>
        ELSE IF caught = NoThrow THEN <<Line(step, "ok", TextCorrect, "")>>
        ELSE IF caught.isError
            THEN <<Line(step, "fail", TextIncorrect, caught.message)>>
        ELSE <<Line(step, "fail", TextFetchError, "")>>

\* What escapes checkCandyMachine to its caller: the catch block takes every
\* value the try block throws and throws nothing itself.
EscapedRethrown(fetched, expected, step) == TryBlock(fetched, expected)

Escaped(fetched, expected, step) == NoThrow

\* main().catch(console.error)
ConsoleError(thrown) == Line(0, "none", "console.error", thrown)

\* What main() writes for a value that escapes an await outside any try block.
Uncaught(escaped) == IF escaped = NoThrow THEN <<>> ELSE <<ConsoleError(escaped)>>

\* The expected states main() passes at steps 5 and 7.
ExpectedAtStepShort(step) ==
    IF step = 5 THEN Expected(2, 0, keypair, collectionMint)
    ELSE Expected(3, 3, keypair, collectionMint)

ExpectedAtStep(step) ==
    IF step = 5 THEN Expected(3, 0, keypair, collectionMint)
    ELSE Expected(3, 3, keypair, collectionMint)

NoCheck ==
    [fetched |-> [ok |-> FALSE, account |-> NoAccount, thrown |-> NoThrow,
                  cause |-> "none"],
     expected |-> Expected(0, 0, keypair, collectionMint), step |-> NoStep]

-----------------------------------------------------------------------------
(* Numbers of calculateCost.  A balance is a SolAmount whose basisPoints is *)
(* a bigint; Number(...) / 1_000_000_000 and the subtraction are IEEE 754   *)
(* double-precision operations, each rounded to nearest, ties to even.      *)
(* Naturals of any size are sequences of bits, least significant first,     *)
(* without leading zeros; zero is the empty sequence.                       *)

RECURSIVE BitsOf(_)
BitsOf(n) == IF n = 0 THEN <<>> ELSE <<n % 2>> \o BitsOf(n \div 2)

\* The number below 2^30 that a sequence of bits stands for.
RECURSIVE IntOf(_)
IntOf(a) == IF a = <<>> THEN 0 ELSE a[1] + 2 * IntOf(Tail(a))

Highest(S) == CHOOSE k \in S : \A j \in S : j <= k

Trim(a) ==
    LET ones == {k \in DOMAIN a : a[k] = 1}
    IN  IF ones = {} THEN <<>> ELSE SubSeq(a, 1, Highest(ones))

Bit(a, k) == IF k \in DOMAIN a THEN a[k] ELSE 0

\* The sums, differences, products and quotients below go over the bit
\* positions lo .. hi by halves, handing the carry from one half to the next.
RECURSIVE AddRange(_, _, _, _, _)
AddRange(a, b, lo, hi, carry) ==
    IF lo = hi
        THEN LET sum == Bit(a, lo) + Bit(b, lo) + carry
             IN  [bits |-> <<sum % 2>>, carry |-> sum \div 2]
        ELSE LET mid == (lo + hi) \div 2
                 low == AddRange(a, b, lo, mid, carry)
                 high == AddRange(a, b, mid + 1, hi, low.carry)
             IN  [bits |-> low.bits \o high.bits, carry |-> high.carry]

Add(a, b) ==
    LET n == IF Len(a) > Len(b) THEN Len(a) ELSE Len(b)
    IN  IF n = 0 THEN <<>>
        ELSE LET sum == AddRange(a, b, 1, n, 0)
             IN  IF sum.carry = 1 THEN sum.bits \o <<1>> ELSE sum.bits

RECURSIVE SubRange(_, _, _, _, _)
SubRange(a, b, lo, hi, borrow) ==
    IF lo = hi
        THEN LET diff == Bit(a, lo) - Bit(b, lo) - borrow
             IN  [bits |-> <<diff % 2>>, carry |-> IF diff < 0 THEN 1 ELSE 0]
        ELSE LET mid == (lo + hi) \div 2
                 low == SubRange(a, b, lo, mid, borrow)
                 high == SubRange(a, b, mid + 1, hi, low.carry)
             IN  [bits |-> low.bits \o high.bits, carry |-> high.carry]

\* a - b for a >= b.
Sub(a, b) == IF a = <<>> THEN <<>> ELSE Trim(SubRange(a, b, 1, Len(a), 0).bits)

\* a < b: by length, then by the most significant bit that differs.
Less(a, b) ==
    IF Len(a) # Len(b) THEN Len(a) < Len(b)
    ELSE LET differ == {k \in DOMAIN a : a[k] # b[k]}
         IN  differ # {} /\ a[Highest(differ)] < b[Highest(differ)]

\* a * 2^k.
Shl(a, k) == IF a = <<>> THEN a ELSE [n \in 1 .. k |-> 0] \o a

RECURSIVE MulRange(_, _, _, _, _)
MulRange(a, factor, lo, hi, carry) ==
    IF lo = hi
        THEN LET sum == a[lo] * factor + carry
             IN  [bits |-> <<sum % 2>>, carry |-> sum \div 2]
        ELSE LET mid == (lo + hi) \div 2
                 low == MulRange(a, factor, lo, mid, carry)
                 high == MulRange(a, factor, mid + 1, hi, low.carry)
             IN  [bits |-> low.bits \o high.bits, carry |-> high.carry]

\* a * factor for a factor below 2^30.
Mul(a, factor) ==
    IF a = <<>> THEN <<>>
    ELSE LET product == MulRange(a, factor, 1, Len(a), 0)
         IN  Trim(product.bits \o BitsOf(product.carry))

Reverse(a) == [k \in 1 .. Len(a) |-> a[Len(a) + 1 - k]]

\* Division by a divisor below 2^30 of bits given most significant first;
\* carry is the remainder.
RECURSIVE DivRange(_, _, _, _, _)
DivRange(a, divisor, lo, hi, rem) ==
    IF lo = hi
        THEN LET r == 2 * rem + a[lo]
             IN  IF r < divisor THEN [bits |-> <<0>>, carry |-> r]
                 ELSE [bits |-> <<1>>, carry |-> r - divisor]
        ELSE LET mid == (lo + hi) \div 2
                 low == DivRange(a, divisor, lo, mid, rem)
                 high == DivRange(a, divisor, mid + 1, hi, low.carry)
             IN  [bits |-> low.bits \o high.bits, carry |-> high.carry]

DivMod(a, divisor) ==
    IF a = <<>> THEN [quotient |-> <<>>, remainder |-> 0]
    ELSE LET q == DivRange(Reverse(a), divisor, 1, Len(a), 0)
         IN  [quotient |-> Trim(Reverse(q.bits)), remainder |-> q.carry]

\* A double: sign, 53-bit significand m (2^52 <= m < 2^53) and exponent e,
\* of value m * 2^e; zero has the empty significand.  The balances of
\* calculateCost stay far from the subnormal and the infinite range.
PrecisionBits == 53

Zero == [neg |-> FALSE, m |-> <<>>, e |-> 0]

\* The double nearest to (n + f) * 2^e, where 0 <= f < 1 and sticky tells
\* whether f # 0; ties go to the even significand.  With sticky, n has more
\* than 53 bits.
RoundToDouble(neg, n, sticky, e) ==
    IF n = <<>> THEN Zero
    ELSE IF Len(n) <= PrecisionBits
        THEN [neg |-> neg, m |-> Shl(n, PrecisionBits - Len(n)),
              e |-> e - (PrecisionBits - Len(n))]
    ELSE LET dropped == Len(n) - PrecisionBits
             kept == SubSeq(n, dropped + 1, Len(n))
             half == n[dropped] = 1
             below == sticky \/ \E k \in 1 .. dropped - 1 : n[k] = 1
             up == half /\ (below \/ kept[1] = 1)
             rounded == IF up THEN Add(kept, <<1>>) ELSE kept
         IN  IF Len(rounded) > PrecisionBits
                THEN [neg |-> neg, m |-> Tail(rounded), e |-> e + dropped + 1]
                ELSE [neg |-> neg, m |-> rounded, e |-> e + dropped]

\* A bigint of billions * 10^9 + units, both below 2^30.
Giga == 1000000000

BigIntOf(billions, units) == Add(Mul(BitsOf(billions), Giga), BitsOf(units))

SolAmount(billions, units) == [basisPoints |-> BigIntOf(billions, units)]

\* Number(bigint): exact up to 2^53, rounded above.
NumberOfBigInt(n) == RoundToDouble(FALSE, n, FALSE, 0)

\* Bits by which a dividend is extended, so that its quotient by a
\* divisor below 2^30 has more than 53 bits.
QuotientShift == 33

\* x / y for doubles x >= 0 and y > 0, y an odd number below 2^30 times a
\* power of two (as 1_000_000_000 = 5^9 * 2^9 is).
DivDouble(x, y) ==
    IF x.m = <<>> THEN Zero
    ELSE LET zeros == Highest({k \in 0 .. Len(y.m) - 1 :
                                \A j \in 1 .. k : y.m[j] = 0})
             odd == IntOf(SubSeq(y.m, zeros + 1, Len(y.m)))
             qr == DivMod(Shl(x.m, QuotientShift), odd)
         IN  RoundToDouble(FALSE, qr.quotient, qr.remainder # 0,
                           x.e - QuotientShift - (y.e + zeros))

\* x - y for doubles x >= 0 and y >= 0.
SubDouble(x, y) ==
    IF y.m = <<>> THEN x
    ELSE IF x.m = <<>> THEN [y EXCEPT !.neg = TRUE]
    ELSE LET e == IF x.e < y.e THEN x.e ELSE y.e
             xs == Shl(x.m, x.e - e)
             ys == Shl(y.m, y.e - e)
         IN  IF xs = ys THEN Zero
             ELSE IF Less(ys, xs) THEN RoundToDouble(FALSE, Sub(xs, ys), FALSE, e)
             ELSE RoundToDouble(TRUE, Sub(ys, xs), FALSE, e)

\* The literal 1_000_000_000 as a double.
LamportsPerSol == NumberOfBigInt(BitsOf(Giga))

calculateCostSwapped(startingBalance, finalBalance) ==
    LET startingSol == DivDouble(NumberOfBigInt(startingBalance.basisPoints), LamportsPerSol)
        finalSol == DivDouble(NumberOfBigInt(finalBalance.basisPoints), LamportsPerSol)
    IN  SubDouble(finalSol, startingSol)

calculateCost(startingBalance, finalBalance) ==
    LET startingSol == DivDouble(NumberOfBigInt(startingBalance.basisPoints), LamportsPerSol)
        finalSol == DivDouble(NumberOfBigInt(finalBalance.basisPoints), LamportsPerSol)
    IN  SubDouble(startingSol, finalSol)

NoCost == [before |-> SolAmount(0, 0), after |-> SolAmount(0, 0),
           result |-> Zero, returned |-> FALSE]

-----------------------------------------------------------------------------
(* Module initialisation: loadWallet.                                      *)

WalletFiles == {"valid", "missing", "malformed"}

\* The directories the two environment variables name when they are set.
HomeDirectory == "$HOME"

UserProfileDirectory == "%USERPROFILE%"

Environments ==
    [HOME : {"", HomeDirectory}, USERPROFILE : {"", UserProfileDirectory}]

\* path.join: an empty first segment leaves the path relative.
PathJoin(directory, rest) == IF directory = "" THEN rest ELSE directory \o "/" \o rest

\* process.env.HOME || process.env.USERPROFILE || ''
defaultWalletPath(e) ==
    PathJoin(IF e.HOME # "" THEN e.HOME ELSE e.USERPROFILE,
             ".config/solana/dev-wallet.json")

NoFatal == [text |-> "", path |-> "", cause |-> ""]

\* loadWallet(umi, walletPath?) on a key file in the given state: the signer,
\* or an Error built from the path that was tried and the caught error.
loadWalletSwallows(walletPath, file, e) == [ok |-> TRUE, error |-> NoFatal]

loadWallet(walletPath, file, e) ==
    LET finalWalletPath == IF walletPath # "" THEN walletPath ELSE defaultWalletPath(e)
    IN  IF file = "valid"
            THEN [ok |-> TRUE, error |-> NoFatal]
            ELSE [ok |-> FALSE,
                  error |-> [text |-> "Failed to load wallet from",
                             path |-> finalWalletPath, cause |-> file]]

-----------------------------------------------------------------------------
(* The addresses of the collection scripts, and the Royalties plugin each  *)
(* script passes with the collection it creates.                           *)

payer == keypair
asset == "asset"
collectionAddress == "collectionAddress"
collectionUpdateAuthority == "collectionUpdateAuthority"
creator1 == "creator1"
creator2 == "creator2"
recipientAddress == "recipientAddress"

Royalties(basisPoints, creators) ==
    [type |-> "Royalties", basisPoints |-> basisPoints, creators |-> creators,
     ruleSet |-> "None"]

PluginsShort(s) ==
    IF s = "educore"
        THEN <<Royalties(500, <<[address |-> creator1, percentage |-> 20],
                                [address |-> creator2, percentage |-> 70]>>)>>
        ELSE <<Royalties(500, <<[address |-> payer, percentage |-> 100]>>)>>

Plugins(s) ==
    IF s = "educore"
        THEN <<Royalties(500, <<[address |-> creator1, percentage |-> 20],
                                [address |-> creator2, percentage |-> 80]>>)>>
        ELSE <<Royalties(500, <<[address |-> payer, percentage |-> 100]>>)>>

-----------------------------------------------------------------------------
(* transferNFT (src/core-collection.ts).  A Signer is identified with its  *)
(* public key.                                                             *)

\* The optional currentOwner, when the caller leaves it out.
NoSigner == "<undefined>"

\* currentOwner || payer
Authority(currentOwner) == IF currentOwner = NoSigner THEN payer ELSE currentOwner

NoTransfer ==
    [assetAddress |-> asset, collectionAddress |-> collectionAddress,
     newOwner |-> recipientAddress, currentOwner |-> NoSigner,
     startingBalance |-> SolAmount(0, 0)]

\* The awaits of transferNFT, in order.
TransferPositions == <<"transferNFT", "transferV1", "transferFinalBalance">>

FollowingTransferPosition(p) ==
    LET k == CHOOSE n \in DOMAIN TransferPositions : TransferPositions[n] = p
    IN  IF k = Len(TransferPositions) THEN "returned" ELSE TransferPositions[k + 1]

\* Where transferNFT is after an awaited call: no await of it is in a try
\* block, so a throw rejects the promise it returned.
AfterTransferAwaitCaught(p, result) == FollowingTransferPosition(p)

AfterTransferAwait(p, result) ==
    IF result.ok THEN FollowingTransferPosition(p) ELSE "rejected"

\* A getBalance call, with the SolAmount it returned.
BalanceCall(result, value) ==
    [step |-> 0, op |-> "getBalance", ok |-> result.ok, thrown |-> result.thrown,
     value |-> value]

\* The lines printed between the first read of the balance and the transfer.
TransferAnnounced(t) ==
    <<Line(0, "none", "Transferring NFT...", ""),
      Line(0, "none", "Asset:", t.assetAddress),
      Line(0, "none", "From:", Authority(t.currentOwner)),
      Line(0, "none", "To:", t.newOwner)>>

\* The lines printed after the second read of the balance.
TransferCompleted(transferCost) ==
    <<Line(0, "none", "Transfer completed!", ""),
      Line(0, "none", "Transfer cost:", transferCost)>>

-----------------------------------------------------------------------------
(* main().                                                                 *)

\* await create(umi, {...}) has not settled.
NotBuilt == [settled |-> FALSE, ok |-> FALSE, thrown |-> NoThrow]

Built(result) == [settled |-> TRUE, ok |-> result.ok, thrown |-> result.thrown]

\* What the await of create(umi, {...}) can come to: the transaction builder,
\* or a throw.
BuildOutcomes == Outcomes(TRUE)

Init ==
    /\ pc = "loadWallet"
    /\ ledger = EmptyLedger
    /\ log = <<>>
    /\ calls = <<>>
    /\ i = 0
    /\ minted = 0
    /\ checkArgs = NoCheck
    /\ inflight = <<>>
    /\ wallet \in WalletFiles
    /\ fatal = NoFatal
    /\ script = "candy-machine"
    /\ transfer = NoTransfer
    /\ createIx = NotBuilt
    /\ env \in Environments
    /\ cost = NoCost

treasury == "treasury"

\* What main() prints when it is called, before its first await.
PrintedBefore(s) ==
    CASE s = "candy-machine" ->
            <<Line(0, "none", "Testing Candy Machine Core...", ""),
              Line(0, "none", "Important account information:", ""),
              Line(0, "none", "console.table",
                   [keypair |-> keypair, collectionMint |-> collectionMint,
                    treasury |-> treasury, candyMachine |-> candyMachine])>>
      [] s = "educore" -> <<Line(1, "none", "Using wallet: ", payer)>>
      [] OTHER -> <<Line(0, "none", "Using wallet:", payer)>>

\* const keypair = loadWallet(umi) at module level: a throw is uncaught and
\* ends the script before main() is called.  With the wallet loaded the module
\* goes on to its last line, the call of main(), which runs up to its first
\* await.
LoadWallet ==
    /\ pc = "loadWallet"
    /\ script # "educore"
    /\ LET loaded == loadWallet("", wallet, env)
       IN  IF loaded.ok
            THEN /\ pc' = IF script = "candy-machine" THEN "createCollection"
                                                       ELSE "initialBalance"
                 /\ fatal' = fatal
                 /\ log' = log \o PrintedBefore(script)
            ELSE pc' = "aborted" /\ fatal' = loaded.error /\ log' = log
    /\ UNCHANGED <<ledger, calls, i, minted, checkArgs, inflight, wallet, script, cost,
                   transfer, createIx, env>>

\* The ledger call of each step.
OpOf(step) ==
    CASE step = 2 -> "createCollection"
      [] step = 3 -> "create"
      [] step = 4 -> "addConfigLines"
      [] step = 5 -> "fetchCandyMachine"
      [] step = 6 -> "mintV1"
      [] step = 7 -> "fetchCandyMachine"
      [] step = 8 -> "deleteCandyMachine"

\* The call main() awaits at a position: the ledger call of the step, or in
\* step 3, ahead of it, the call that builds the transaction.
OpAt(p) == IF p = "createBuild" THEN "create()" ELSE OpOf(StepOf(p))

\* Whether main() awaits the call of a step before going on: every call of
\* main() is awaited.
AwaitsAllButMint(step) == step # 6

Awaits(step) == TRUE

\* main() is suspended at an await while the call it awaits is in flight.
Suspended == inflight # <<>> /\ Awaits(inflight[Len(inflight)].step)

Pending(step) == inflight # <<>> /\ inflight[1].step = step

\* main() reaches a ledger call and starts it.
Submit ==
    /\ StepOf(pc) \in 2 .. 8
    /\ pc = "mintV1" => i < numMints
    /\ ~Suspended
    /\ inflight' = Append(inflight, [step |-> StepOf(pc), op |-> OpAt(pc)])
    /\ UNCHANGED <<pc, ledger, log, calls, i, minted, checkArgs, wallet, fatal, script, cost,
                   transfer, createIx, env>>

\* Step 2: await createCollection(...).sendAndConfirm, then the marker.
CreateCollection ==
    /\ pc = "createCollection"
    /\ Pending(2)
    /\ \E result \in Outcomes(CanCreateCollection(ledger)) :
        /\ ledger' = IF result.ok THEN DoCreateCollection(ledger) ELSE ledger
        /\ calls' = Append(calls, CollectionCall(2, "createCollection", result,
                                                 Plugins(script)))
        /\ log' = log \o Marker(2, result, collectionMint)
        /\ pc' = AfterStep(2, result)
    /\ inflight' = Tail(inflight)
    /\ UNCHANGED <<i, minted, checkArgs, wallet, fatal, script, cost,
                   transfer, createIx, env>>

\* Step 3, first await: const createIx = await create(umi, {...}).  A throw
\* goes to the catch block of the step: nothing is submitted.
Build ==
    /\ pc = "createBuild"
    /\ Pending(3)
    /\ \E result \in BuildOutcomes :
        /\ createIx' = Built(result)
        /\ log' = IF result.ok THEN log ELSE log \o Marker(3, result, candyMachine)
        /\ pc' = IF result.ok THEN "create" ELSE AfterStep(3, result)
    /\ inflight' = Tail(inflight)
    /\ UNCHANGED <<ledger, calls, i, minted, checkArgs, wallet, fatal, script, cost,
                   transfer, env>>

\* Step 3, second await: await createIx.sendAndConfirm, then the marker.
Create ==
    /\ pc = "create"
    /\ Pending(3)
    /\ \E result \in Outcomes(CanCreate(ledger)) :
        /\ ledger' = IF result.ok
                        THEN DoCreate(ledger, itemsAvailable, keypair, collectionMint)
                        ELSE ledger
        /\ calls' = Append(calls, Call(3, "create", result))
        /\ log' = log \o Marker(3, result, candyMachine)
        /\ pc' = AfterStep(3, result)
    /\ inflight' = Tail(inflight)
    /\ UNCHANGED <<i, minted, checkArgs, wallet, fatal, script, cost,
                   transfer, createIx, env>>

\* Step 4: await addConfigLines(index 0, three lines).sendAndConfirm.
AddConfigLines ==
    /\ pc = "addConfigLines"
    /\ Pending(4)
    /\ \E result \in Outcomes(CanAddConfigLines(ledger, 0, configLines)) :
        /\ ledger' = IF result.ok THEN DoAddConfigLines(ledger, 0, configLines)
                                  ELSE ledger
        /\ calls' = Append(calls, Call(4, "addConfigLines", result))
        /\ log' = log \o Marker(4, result, candyMachine)
        /\ pc' = AfterStep(4, result)
    /\ inflight' = Tail(inflight)
    /\ UNCHANGED <<i, minted, checkArgs, wallet, fatal, script, cost,
                   transfer, createIx, env>>

\* Steps 5 and 7: await checkCandyMachine(..., step).
CheckCandyMachine(step) ==
    /\ pc = (IF step = 5 THEN "checkCandyMachine5" ELSE "checkCandyMachine7")
    /\ Pending(step)
    /\ \E fetched \in FetchOutcomes(ledger) :
        /\ checkArgs' = [fetched |-> fetched, expected |-> ExpectedAtStep(step),
                         step |-> step]
        /\ calls' = Append(calls, Call(step, "fetchCandyMachine", fetched))
        /\ LET escaped == Escaped(fetched, ExpectedAtStep(step), step)
           IN  /\ log' = log \o checkCandyMachine(fetched, ExpectedAtStep(step), step)
                               \o Uncaught(escaped)
               /\ pc' = IF escaped = NoThrow
                            THEN AfterStep(step, [ok |-> TRUE, thrown |-> NoThrow])
                            ELSE "rejected"
    /\ inflight' = Tail(inflight)
    /\ UNCHANGED <<ledger, i, minted, wallet, fatal, script, cost,
                   transfer, createIx, env>>

PostLoadCheck == CheckCandyMachine(5)

PostMintCheck == CheckCandyMachine(7)

\* minted++ stands after the awaited mint: it runs only when the mint returned.
CountedOnAttempt(count, result) == count + 1

Counted(count, result) == IF result.ok THEN count + 1 ELSE count

\* Step 6, one iteration: await mintV1(...).sendAndConfirm inside the loop that
\* the try block encloses.  A confirmed mint counts and prints the asset; after
\* the last one the loop ends and the marker is written.  A throw leaves the
\* loop for the catch block.
Mint ==
    /\ pc = "mintV1"
    /\ i < numMints
    /\ Pending(6)
    /\ \E result \in Outcomes(CanMint(ledger)) :
        /\ calls' = Append(calls, Call(6, "mintV1", result))
        /\ minted' = Counted(minted, result)
        /\ IF result.ok
            THEN /\ ledger' = DoMint(ledger, i + 1)
                 /\ i' = i + 1
                 /\ IF i + 1 < numMints
                     THEN /\ log' = Append(log, Line(0, "none", "Asset Address", i + 1))
                          /\ pc' = "mintV1"
                     ELSE /\ log' = log \o <<Line(0, "none", "Asset Address", i + 1)>>
                                         \o Marker(6, result, minted')
                          /\ pc' = AfterStep(6, result)
            ELSE /\ log' = log \o Marker(6, result, minted')
                 /\ pc' = AfterStep(6, result)
                 /\ UNCHANGED <<ledger, i>>
    /\ inflight' = Tail(inflight)
    /\ UNCHANGED <<checkArgs, wallet, fatal, script, cost,
                   transfer, createIx, env>>

\* Step 8: await deleteCandyMachine(...).sendAndConfirm, then the marker.
DeleteCandyMachine ==
    /\ pc = "deleteCandyMachine"
    /\ Pending(8)
    /\ \E result \in Outcomes(CanDelete(ledger)) :
        /\ ledger' = IF result.ok THEN DoDelete(ledger) ELSE ledger
        /\ calls' = Append(calls, Call(8, "deleteCandyMachine", result))
        /\ log' = log \o Marker(8, result, candyMachine)
        /\ pc' = AfterStep(8, result)
    /\ inflight' = Tail(inflight)
    /\ UNCHANGED <<i, minted, checkArgs, wallet, fatal, script, cost,
                   transfer, createIx, env>>

Next ==
    \/ LoadWallet
    \/ Submit
    \/ CreateCollection
    \/ Build
    \/ Create
    \/ AddConfigLines
    \/ PostLoadCheck
    \/ Mint
    \/ PostMintCheck
    \/ DeleteCandyMachine

Spec == Init /\ [][Next]_vars

\* Every ledger call that was started returns in the end, and main() goes on
\* whenever it is not suspended.
SpecLive == Spec /\ WF_vars(Next)

-----------------------------------------------------------------------------
(* The collection scripts: main() of src/core-collection.ts, of            *)
(* src/create-collection.ts and of the Educore script                      *)
(* (src/unnamed/part_000).  No call of theirs is in a try block: the first  *)
(* throw rejects main(), and main().catch(console.error) prints it.         *)

Scripts == {"candy-machine", "core-collection", "create-collection", "educore"}

CollectionScripts == Scripts \ {"candy-machine"}

\* The awaits of each main(), in order.
Positions(s) ==
    CASE s = "core-collection" ->
            <<"initialBalance", "collection", "fetchCollection", "asset",
              "finalBalance", "assetsByCollection">>
      [] s = "create-collection" ->
            <<"initialBalance", "collection", "asset", "finalBalance",
              "assetsByCollection">>
      [] s = "educore" ->
            <<"initialBalance", "collection", "asset", "addPlugin",
              "assetsByOwner", "assetsByCollection">>

At(p) == script \in CollectionScripts /\ pc = p

FollowingPosition(s, p) ==
    LET k == CHOOSE n \in DOMAIN Positions(s) : Positions(s)[n] = p
    IN  IF k = Len(Positions(s)) THEN "finished" ELSE Positions(s)[k + 1]

\* Where main() is after an awaited call: at the next await, or rejected.
AfterAwaitIsolated(s, p, result) == FollowingPosition(s, p)

AfterAwait(s, p, result) ==
    IF result.ok THEN FollowingPosition(s, p) ELSE "rejected"

\* What main() prints once the await at a position has returned, up to the
\* next await; value is what the call returned.
Printed(s, p, value) ==
    CASE s = "core-collection" /\ p = "initialBalance" ->
            <<Line(0, "none", "Initial balance:", value),
              Line(0, "none", "Creating collection:", collectionAddress)>>
      [] s = "core-collection" /\ p = "fetchCollection" ->
            <<Line(0, "none", "Creating Asset:", asset)>>
      [] s = "core-collection" /\ p = "asset" ->
            <<Line(0, "none", "Generated recipient address for demo:",
                   recipientAddress)>>
      [] s = "create-collection" /\ p = "initialBalance" ->
            <<Line(0, "none", "Initial balance:", value)>>
      [] s = "create-collection" /\ p = "collection" ->
            <<Line(0, "none", "Creating collection:", collectionAddress),
              Line(0, "none", "Creating Asset:", asset)>>
      [] s \in {"core-collection", "create-collection"} /\ p = "finalBalance" ->
            <<Line(0, "none", "Final balance:", value)>>
      [] s = "educore" /\ p = "initialBalance" ->
            <<Line(2, "none", "Creating Collection:", collectionAddress)>>
      [] s = "educore" /\ p = "collection" ->
            <<Line(3, "none", "Creating Asset:", asset)>>
      [] OTHER -> <<>>

Settle(p, result, value) ==
    /\ pc' = AfterAwait(script, p, result)
    /\ log' = IF result.ok THEN log \o Printed(script, p, value)
                           ELSE Append(log, ConsoleError(result.thrown))

\* The Educore script reads the key file at module level, without loadWallet:
\* the error of readFileSync, JSON.parse or createKeypairFromSecretKey is
\* uncaught as it is.
LoadWalletInline ==
    /\ pc = "loadWallet"
    /\ script = "educore"
    /\ IF wallet = "valid"
        THEN /\ pc' = "initialBalance"
             /\ fatal' = fatal
             /\ log' = log \o PrintedBefore(script)
        ELSE /\ pc' = "aborted"
             /\ log' = log
             /\ fatal' = [text |-> "",
                          path |-> IF wallet = "missing" THEN defaultWalletPath(env)
                                                          ELSE "",
                          cause |-> wallet]
    /\ UNCHANGED <<ledger, calls, i, minted, checkArgs, inflight, wallet, script,
                   cost, transfer, createIx, env>>

\* await umi.rpc.getBalance(payer.publicKey)
GetBalance ==
    /\ At("initialBalance") \/ At("finalBalance")
    /\ \E result \in Outcomes(TRUE) :
        /\ calls' = Append(calls, Call(0, "getBalance", result))
        /\ Settle(pc, result, ledger.balance)
    /\ UNCHANGED <<ledger, i, minted, checkArgs, inflight, wallet, fatal, script, cost,
                   transfer, createIx, env>>

\* await createCollection / createCollectionV1 (...).sendAndConfirm
CreateCollectionV1 ==
    /\ At("collection")
    /\ \E result \in Outcomes(CanCreateCollection(ledger)) :
        /\ ledger' = IF result.ok THEN DoCreateCollection(ledger) ELSE ledger
        /\ calls' = Append(calls,
                        CollectionCall(0, IF script = "core-collection"
                                            THEN "createCollection"
                                            ELSE "createCollectionV1",
                                       result, Plugins(script)))
        /\ Settle(pc, result, collectionAddress)
    /\ UNCHANGED <<i, minted, checkArgs, inflight, wallet, fatal, script, cost,
                   transfer, createIx, env>>

\* await fetchCollection(umi, collectionAddress.publicKey)
FetchCollection ==
    /\ At("fetchCollection")
    /\ \E result \in Outcomes(ledger.collection) :
        /\ calls' = Append(calls, Call(0, "fetchCollection", result))
        /\ Settle(pc, result, collectionAddress)
    /\ UNCHANGED <<ledger, i, minted, checkArgs, inflight, wallet, fatal, script, cost,
                   transfer, createIx, env>>

\* The owner and the authority each script passes with the asset it creates:
\* the payer for both, but in Educore no owner and the collection's update
\* authority.
OwnerArgument(s) == IF s = "educore" THEN "" ELSE payer

AuthorityArgument(s) == IF s = "educore" THEN collectionUpdateAuthority ELSE payer

\* await create / createV1 (...).sendAndConfirm: one asset in the collection.
CreateV1 ==
    /\ At("asset")
    /\ \E result \in Outcomes(CanCreateAsset(ledger, asset)) :
        /\ ledger' = IF result.ok
                        THEN DoCreateAsset(ledger, asset, collectionAddress,
                                           OwnerArgument(script),
                                           AuthorityArgument(script))
                        ELSE ledger
        /\ calls' = Append(calls, Call(0, IF script = "core-collection"
                                            THEN "create" ELSE "createV1", result))
        /\ Settle(pc, result, asset)
    /\ UNCHANGED <<i, minted, checkArgs, inflight, wallet, fatal, script, cost,
                   transfer, createIx, env>>

\* await addPlugin(...).sendAndConfirm
AddPlugin ==
    /\ At("addPlugin")
    /\ \E result \in Outcomes(CanAddPlugin(ledger, asset)) :
        /\ ledger' = IF result.ok THEN DoAddPlugin(ledger, asset) ELSE ledger
        /\ calls' = Append(calls, Call(0, "addPlugin", result))
        /\ Settle(pc, result, asset)
    /\ UNCHANGED <<i, minted, checkArgs, inflight, wallet, fatal, script, cost,
                   transfer, createIx, env>>

\* The line written for one asset of the closing summary.
TextSummary == "{asset, collection, owner, name, uri}"

RECURSIVE SeqOf(_)
SeqOf(S) ==
    IF S = {} THEN <<>>
    ELSE LET a == CHOOSE x \in S : TRUE IN <<a>> \o SeqOf(S \ {a})

\* for (const a of assetsInCollection) console.log({...})
SummaryOf(assets) ==
    [n \in 1 .. Len(assets) |->
        Line(0, "none", TextSummary,
             [asset |-> assets[n].asset, collection |-> collectionAddress,
              owner |-> assets[n].owner])]

\* await getAssetV1GpaBuilder(umi)...whereField('owner', ...).getDeserialized()
GetAssetsByOwner ==
    /\ At("assetsByOwner")
    /\ \E result \in Outcomes(TRUE) :
        /\ calls' = Append(calls, Call(0, "getAssetV1GpaBuilder", result))
        /\ pc' = AfterAwait(script, pc, result)
        /\ log' = Append(log,
                    IF result.ok
                        THEN Line(0, "none", "assetsByOwner",
                                  SeqOf(AssetsWhere(ledger, "owner", payer)))
                        ELSE ConsoleError(result.thrown))
    /\ UNCHANGED <<ledger, i, minted, checkArgs, inflight, wallet, fatal, script, cost,
                   transfer, createIx, env>>

\* await getAssetV1GpaBuilder(umi)...whereField('updateAuthority', ...)
\* .getDeserialized(), then the summary (the array itself in Educore).
GetAssetsByCollection ==
    /\ At("assetsByCollection")
    /\ \E result \in Outcomes(TRUE) :
        LET assetsInCollection ==
                SeqOf(AssetsWhere(ledger, "collection", collectionAddress))
        IN  /\ calls' = Append(calls, Call(0, "getAssetV1GpaBuilder", result))
            /\ pc' = AfterAwait(script, pc, result)
            /\ log' = IF ~result.ok THEN Append(log, ConsoleError(result.thrown))
                      ELSE IF script = "educore"
                        THEN Append(log, Line(0, "none", "assetsByCollection",
                                              assetsInCollection))
                      ELSE log \o <<Line(0, "none", "Deployment summary:", "")>>
                               \o SummaryOf(assetsInCollection)
    /\ UNCHANGED <<ledger, i, minted, checkArgs, inflight, wallet, fatal, script, cost,
                   transfer, createIx, env>>

InitScripts ==
    /\ pc = "loadWallet"
    /\ ledger = EmptyLedger
    /\ log = <<>>
    /\ calls = <<>>
    /\ i = 0
    /\ minted = 0
    /\ checkArgs = NoCheck
    /\ inflight = <<>>
    /\ wallet \in WalletFiles
    /\ fatal = NoFatal
    /\ script \in Scripts
    /\ transfer = NoTransfer
    /\ createIx = NotBuilt
    /\ env \in Environments
    /\ cost = NoCost

NextScripts ==
    \/ LoadWalletInline
    \/ GetBalance
    \/ CreateCollectionV1
    \/ FetchCollection
    \/ CreateV1
    \/ AddPlugin
    \/ GetAssetsByOwner
    \/ GetAssetsByCollection

SpecScripts == InitScripts /\ [][Next \/ NextScripts]_vars

-----------------------------------------------------------------------------
(* checkCandyMachine on its own: any candy machine account (or none), any  *)
(* expected state, any step argument, one call.                            *)

Counts == 0 .. MaxCount

Authorities == {keypair, OtherAddress}

Collections == {collectionMint, OtherAddress}

\* Accounts the ledger can hold: no more redeemed than loaded.
VerifyAccounts ==
    {a \in {Account(l, l, r, au, co) :
                l \in Counts, r \in Counts, au \in Authorities, co \in Collections} :
        Number(a.itemsRedeemed) <= a.itemsLoaded}

VerifyExpected ==
    {Expected(l, r, au, co) :
        l \in Counts, r \in Counts, au \in Authorities, co \in Collections}

StepArguments == {NoStep, 0, 5, 7}

InitVerify ==
    /\ pc = "verify"
    /\ ledger \in {[EmptyLedger EXCEPT !.cm = a] : a \in VerifyAccounts \cup {NoAccount}}
    /\ checkArgs \in {[fetched |-> f, expected |-> e, step |-> s] :
                        f \in FetchOutcomes(ledger), e \in VerifyExpected,
                        s \in StepArguments}
    /\ log = <<>>
    /\ calls = <<>>
    /\ i = 0
    /\ minted = 0
    /\ inflight = <<>>
    /\ wallet = "valid"
    /\ fatal = NoFatal
    /\ script = "candy-machine"
    /\ transfer = NoTransfer
    /\ createIx = NotBuilt
    /\ env = [HOME |-> HomeDirectory, USERPROFILE |-> ""]
    /\ cost = NoCost

VerifyCall ==
    /\ pc = "verify"
    /\ log' = checkCandyMachine(checkArgs.fetched, checkArgs.expected, checkArgs.step)
    /\ calls' = Append(calls, Call(checkArgs.step, "fetchCandyMachine", checkArgs.fetched))
    /\ pc' = IF Escaped(checkArgs.fetched, checkArgs.expected, checkArgs.step) = NoThrow
                THEN "verified" ELSE "rejected"
    /\ UNCHANGED <<ledger, i, minted, checkArgs, inflight, wallet, fatal, script, cost,
                   transfer, createIx, env>>

NextVerify == VerifyCall

SpecVerify == InitVerify /\ [][NextVerify]_vars

-----------------------------------------------------------------------------
(* checkCandyMachine called again and again on the same candy machine, and *)
(* the calls main() makes of it.                                           *)

\* Number of calls in a row that is tried.
MaxCalls == 3

InitRecheck ==
    /\ pc = "verify"
    /\ ledger \in {[EmptyLedger EXCEPT !.cm = a] : a \in VerifyAccounts \cup {NoAccount}}
    /\ checkArgs \in {[fetched |-> f, expected |-> ExpectedAtStep(s), step |-> s] :
                        f \in FetchOutcomes(ledger), s \in {5, 7}}
    /\ log = <<>>
    /\ calls = <<>>
    /\ i = 0
    /\ minted = 0
    /\ inflight = <<>>
    /\ wallet = "valid"
    /\ fatal = NoFatal
    /\ script = "candy-machine"
    /\ transfer = NoTransfer
    /\ createIx = NotBuilt
    /\ env = [HOME |-> HomeDirectory, USERPROFILE |-> ""]
    /\ cost = NoCost

\* A further call with the same arguments: a new read of the ledger, and the
\* lines the call writes; nothing else.
VerifyAgainPaying ==
    /\ pc = "verified"
    /\ Len(calls) < MaxCalls
    /\ \E fetched \in FetchOutcomes(ledger) :
        /\ checkArgs' = [checkArgs EXCEPT !.fetched = fetched]
        /\ calls' = Append(calls, Call(checkArgs.step, "fetchCandyMachine", fetched))
        /\ log' = log \o checkCandyMachine(fetched, checkArgs.expected, checkArgs.step)
        /\ pc' = IF Escaped(fetched, checkArgs.expected, checkArgs.step) = NoThrow
                    THEN "verified" ELSE "rejected"
    /\ ledger' = Pay(ledger)
    /\ UNCHANGED <<i, minted, inflight, wallet, fatal, script, cost,
                   transfer, createIx, env>>

VerifyAgain ==
    /\ pc = "verified"
    /\ Len(calls) < MaxCalls
    /\ \E fetched \in FetchOutcomes(ledger) :
        /\ checkArgs' = [checkArgs EXCEPT !.fetched = fetched]
        /\ calls' = Append(calls, Call(checkArgs.step, "fetchCandyMachine", fetched))
        /\ log' = log \o checkCandyMachine(fetched, checkArgs.expected, checkArgs.step)
        /\ pc' = IF Escaped(fetched, checkArgs.expected, checkArgs.step) = NoThrow
                    THEN "verified" ELSE "rejected"
    /\ UNCHANGED <<ledger, i, minted, inflight, wallet, fatal, script, cost,
                   transfer, createIx, env>>

NextRecheck == VerifyCall \/ VerifyAgain

SpecRecheck == (Init \/ InitRecheck) /\ [][Next \/ NextRecheck]_vars

-----------------------------------------------------------------------------
(* calculateCost on its own: any two balances of the fee payer, one call.  *)

\* Whole SOL of the balances drawn.
MaxSol == 5

\* Base units beyond the whole SOL of the balances drawn.
Units == {0, 1, 998000000, 999999999}

Balances == {SolAmount(billions, units) : billions \in 0 .. MaxSol, units \in Units}

InitCost ==
    /\ pc = "calculateCost"
    /\ ledger = EmptyLedger
    /\ log = <<>>
    /\ calls = <<>>
    /\ i = 0
    /\ minted = 0
    /\ checkArgs = NoCheck
    /\ inflight = <<>>
    /\ wallet = "valid"
    /\ fatal = NoFatal
    /\ script = "core-collection"
    /\ transfer = NoTransfer
    /\ createIx = NotBuilt
    /\ env = [HOME |-> HomeDirectory, USERPROFILE |-> ""]
    /\ cost \in {[before |-> b, after |-> a, result |-> Zero, returned |-> FALSE] :
                    b \in Balances, a \in Balances}

CalculateCost ==
    /\ pc = "calculateCost"
    /\ cost' = [cost EXCEPT !.result = calculateCost(cost.before, cost.after),
                            !.returned = TRUE]
    /\ pc' = "returned"
    /\ UNCHANGED <<ledger, log, calls, i, minted, checkArgs, inflight, wallet, fatal,
                   script,
                   transfer, createIx, env>>

NextCost == CalculateCost

SpecCost == InitCost /\ [][NextCost]_vars

-----------------------------------------------------------------------------
(* transferNFT on its own: called on a ledger that holds the collection,   *)
(* with the asset owned by the payer, owned by someone else, or absent;    *)
(* every read of the balance returns what the node reports at that time.   *)

Owners == {payer, creator1}

Signers == {NoSigner, payer, creator1}

LedgerWith(assets) ==
    [collection |-> TRUE, cm |-> NoAccount, assets |-> assets,
     balance |-> InitialBalance]

TransferLedgers ==
    {LedgerWith({})}
        \cup {LedgerWith({[asset |-> asset, collection |-> collectionAddress,
                           owner |-> o]}) : o \in Owners}

InitTransfer ==
    /\ pc = "transferNFT"
    /\ ledger \in TransferLedgers
    /\ log = <<>>
    /\ calls = <<>>
    /\ i = 0
    /\ minted = 0
    /\ checkArgs = NoCheck
    /\ inflight = <<>>
    /\ wallet = "valid"
    /\ fatal = NoFatal
    /\ script = "core-collection"
    /\ cost = NoCost
    /\ transfer \in {[NoTransfer EXCEPT !.currentOwner = s] : s \in Signers}
    /\ createIx = NotBuilt
    /\ env = [HOME |-> HomeDirectory, USERPROFILE |-> ""]

\* What a read of the balance returns: any balance when it succeeds.
Reported(result) == IF result.ok THEN Balances ELSE {SolAmount(0, 0)}

\* const startingBalance = await umi.rpc.getBalance(payer.publicKey)
StartingBalance ==
    /\ pc = "transferNFT"
    /\ \E result \in Outcomes(TRUE) : \E balance \in Reported(result) :
        /\ calls' = Append(calls, BalanceCall(result, balance))
        /\ transfer' = IF result.ok THEN [transfer EXCEPT !.startingBalance = balance]
                                    ELSE transfer
        /\ log' = IF result.ok THEN log \o TransferAnnounced(transfer) ELSE log
        /\ pc' = AfterTransferAwait(pc, result)
    /\ UNCHANGED <<ledger, i, minted, checkArgs, inflight, wallet, fatal, script, cost,
                   createIx, env>>

\* await transferV1(umi, {...}).sendAndConfirm(umi, txConfig)
TransferV1 ==
    /\ pc = "transferV1"
    /\ \E result \in Outcomes(CanTransfer(ledger, transfer.assetAddress,
                                          transfer.collectionAddress,
                                          Authority(transfer.currentOwner))) :
        /\ ledger' = IF result.ok
                        THEN DoTransfer(ledger, transfer.assetAddress, transfer.newOwner)
                        ELSE ledger
        /\ calls' = Append(calls, Call(0, "transferV1", result))
        /\ pc' = AfterTransferAwait(pc, result)
    /\ UNCHANGED <<log, i, minted, checkArgs, inflight, wallet, fatal, script, cost,
                   transfer, createIx, env>>

\* const finalBalance = await umi.rpc.getBalance(payer.publicKey), then
\* calculateCost(startingBalance, finalBalance), printed and returned.
FinalBalance ==
    /\ pc = "transferFinalBalance"
    /\ \E result \in Outcomes(TRUE) : \E finalBalance \in Reported(result) :
        LET transferCost == calculateCost(transfer.startingBalance, finalBalance)
        IN  /\ calls' = Append(calls, BalanceCall(result, finalBalance))
            /\ pc' = AfterTransferAwait(pc, result)
            /\ cost' = IF pc' = "returned"
                            THEN [before |-> transfer.startingBalance,
                                  after |-> finalBalance,
                                  result |-> transferCost, returned |-> TRUE]
                            ELSE cost
            /\ log' = IF pc' = "returned" THEN log \o TransferCompleted(transferCost)
                                          ELSE log
    /\ UNCHANGED <<ledger, i, minted, checkArgs, inflight, wallet, fatal, script,
                   transfer, createIx, env>>

NextTransfer ==
    \/ StartingBalance
    \/ TransferV1
    \/ FinalBalance

SpecTransfer == InitTransfer /\ [][NextTransfer]_vars

-----------------------------------------------------------------------------
(* Properties.                                                             *)

\* Step 3 begins with the call that builds its transaction, which is no
\* ledger call.
BuildFailed == createIx.settled /\ ~createIx.ok

StepsStarted ==
    {calls[n].step : n \in DOMAIN calls} \cup (IF createIx.settled THEN {3} ELSE {})

StepFailed(k) ==
    \/ \E n \in DOMAIN calls : calls[n].step = k /\ ~calls[n].ok
    \/ k = 3 /\ BuildFailed

StepCompleted(k) == StepOf(pc) > k

MintCalls == {n \in DOMAIN calls : calls[n].op = "mintV1"}

SuccessfulMints == Cardinality({n \in MintCalls : calls[n].ok})

MutatingSteps == {2, 3, 4, 6, 8}

HasMarker(k, mark) == \E n \in DOMAIN log : log[n].step = k /\ log[n].mark = mark

\* C1: a failed step never keeps the next one from being attempted: by the
\* time main() is at (or past) a step, every step from 2 up to the one before
\* it has been started (its first call was made and has returned), whatever
\* the outcomes; at the end all of 2..8 have.
C1_EveryStepStarted ==
    \A k \in 2 .. 8 : StepCompleted(k) => k \in StepsStarted

C1_Witness ==
    /\ pc = "done"
    /\ \A k \in MutatingSteps : StepFailed(k)
    /\ StepsStarted = 2 .. 8

\* C2: the mint loop submits exactly numMints mints in every run, whatever
\* subset of them fails.
C2_ExactlyNMints ==
    StepCompleted(6) => Cardinality(MintCalls) = numMints

\* C3: step 7 runs with expected itemsRedeemed equal to the number of mints
\* that succeeded and itemsLoaded as at step 5, and so reports success whenever
\* the ledger's itemsRedeemed is that number.
C3_ExpectedIsMinted ==
    (checkArgs.step = 7) =>
        /\ checkArgs.expected.itemsRedeemed = SuccessfulMints
        /\ checkArgs.expected.itemsLoaded = ExpectedAtStep(5).itemsLoaded
        /\ (checkArgs.fetched.ok
                /\ Number(checkArgs.fetched.account.itemsRedeemed) = SuccessfulMints
                /\ checkArgs.fetched.account.itemsLoaded = checkArgs.expected.itemsLoaded
            => HasMarker(7, "ok"))

\* C4: a failed read is never reported with the incorrect-configuration
\* marker, and a field mismatch never with the fetch-error marker.
C4_FetchFailureDistinct ==
    \A n \in DOMAIN log :
        (log[n].step = checkArgs.step /\ log[n].mark = "fail") =>
            /\ ~checkArgs.fetched.ok => log[n].text # TextIncorrect
            /\ checkArgs.fetched.ok => log[n].text # TextFetchError

FieldsEqual(account, expected) ==
    /\ account.itemsRedeemed.bigint = expected.itemsRedeemed
    /\ account.itemsLoaded = expected.itemsLoaded
    /\ account.authority = expected.authority
    /\ account.collectionMint = expected.collection

\* C5: a call with a step index reports success exactly when the account is
\* readable and all four fields equal the expected ones; for an account with
\* itemsLoaded 3 and itemsRedeemed 3, expecting 3 redeemed succeeds and
\* expecting 2 reports the itemsRedeemed mismatch and nothing else.
C5_SuccessIffAllEqual ==
    (pc = "verified" /\ Truthy(checkArgs.step)) =>
        /\ HasMarker(checkArgs.step, "ok")
            <=> (checkArgs.fetched.ok
                    /\ FieldsEqual(checkArgs.fetched.account, checkArgs.expected))
        /\ (/\ checkArgs.fetched.ok
            /\ checkArgs.fetched.account.itemsLoaded = 3
            /\ checkArgs.fetched.account.itemsRedeemed.bigint = 3
            /\ FieldsEqual(checkArgs.fetched.account,
                           [checkArgs.expected EXCEPT !.itemsRedeemed = 3]))
            => /\ checkArgs.expected.itemsRedeemed = 3
                    => log = <<Line(checkArgs.step, "ok", TextCorrect, "")>>
               /\ checkArgs.expected.itemsRedeemed = 2
                    => log = <<Line(checkArgs.step, "fail", TextIncorrect,
                                    MsgItemsRedeemed)>>

C5_Witness ==
    /\ pc = "verified"
    /\ checkArgs.step = 7
    /\ checkArgs.fetched.ok
    /\ checkArgs.fetched.account.itemsLoaded = 3
    /\ checkArgs.fetched.account.itemsRedeemed.bigint = 3
    /\ checkArgs.expected = Expected(3, 2, keypair, collectionMint)
    /\ checkArgs.fetched.account.authority = keypair
    /\ checkArgs.fetched.account.collectionMint = collectionMint
    /\ log = <<Line(7, "fail", TextIncorrect, MsgItemsRedeemed)>>

\* The fields in the order the spec gives, with the message of each.
FieldOrder == <<"itemsRedeemed", "itemsLoaded", "authority", "collectionMint">>

FieldMessage(f) ==
    CASE f = "itemsRedeemed" -> MsgItemsRedeemed
      [] f = "itemsLoaded" -> MsgItemsLoaded
      [] f = "authority" -> MsgAuthority
      [] f = "collectionMint" -> MsgCollection

FieldDiffers(f, account, expected) ==
    CASE f = "itemsRedeemed" -> account.itemsRedeemed.bigint # expected.itemsRedeemed
      [] f = "itemsLoaded" -> account.itemsLoaded # expected.itemsLoaded
      [] f = "authority" -> account.authority # expected.authority
      [] f = "collectionMint" -> account.collectionMint # expected.collection

DifferingFields(account, expected) ==
    {n \in DOMAIN FieldOrder : FieldDiffers(FieldOrder[n], account, expected)}

\* C6: when observed and expected differ in at least one field, exactly one
\* mismatch is reported, and it names the earliest differing field in the
\* order itemsRedeemed, itemsLoaded, authority, collectionMint.
C6_FirstMismatchOnly ==
    (/\ pc = "verified"
     /\ Truthy(checkArgs.step)
     /\ checkArgs.fetched.ok
     /\ DifferingFields(checkArgs.fetched.account, checkArgs.expected) # {})
    => LET d == DifferingFields(checkArgs.fetched.account, checkArgs.expected)
           first == CHOOSE n \in d : \A m \in d : n <= m
       IN  log = <<Line(checkArgs.step, "fail", TextIncorrect,
                        FieldMessage(FieldOrder[first]))>>

C6_Witness ==
    /\ pc = "verified"
    /\ checkArgs.step = 5
    /\ checkArgs.fetched.ok
    /\ DifferingFields(checkArgs.fetched.account, checkArgs.expected) = {2, 4}
    /\ log = <<Line(5, "fail", TextIncorrect, MsgItemsLoaded)>>

\* C7: for each of the steps 2, 3, 4, 6, 8, a failure marker with the step's
\* index is in the output exactly when that step's operation failed, and a
\* success marker with its index exactly when it succeeded.
C7_MarkerIndexIsStep ==
    \A k \in MutatingSteps :
        /\ HasMarker(k, "fail") <=> StepFailed(k)
        /\ HasMarker(k, "ok") <=> (StepCompleted(k) /\ ~StepFailed(k))

C7_Witness ==
    /\ pc = "done"
    /\ ~StepFailed(2) /\ HasMarker(2, "ok")
    /\ StepFailed(3) /\ HasMarker(3, "fail")
    /\ StepFailed(8) /\ HasMarker(8, "fail")

\* C8: a failure that carries a message is reported with a marker that
\* contains the message; the marker without a message is written only for
\* a failure that carries none.
C8_MarkerCarriesMessage ==
    \A n \in DOMAIN calls :
        (~calls[n].ok /\ calls[n].step \in MutatingSteps) =>
            \A m \in DOMAIN log :
                (log[m].step = calls[n].step /\ log[m].mark = "fail") =>
                    IF calls[n].thrown.isError /\ calls[n].thrown.message # ""
                        THEN log[m].detail = calls[n].thrown.message
                        ELSE log[m].detail = ""

\* C9: in every state the candy machine's itemsRedeemed is at most its
\* itemsLoaded, and from one state to the next it never decreases.
C9_RedeemedBounded ==
    /\ (ledger.cm.exists => Number(ledger.cm.itemsRedeemed) <= ledger.cm.itemsLoaded)
    /\ [][/\ ledger'.cm.exists =>
                Number(ledger'.cm.itemsRedeemed) <= ledger'.cm.itemsLoaded
          /\ (ledger.cm.exists /\ ledger'.cm.exists) =>
                Number(ledger'.cm.itemsRedeemed) >= Number(ledger.cm.itemsRedeemed)]_vars

C9_Witness ==
    /\ pc = "checkCandyMachine7"
    /\ ledger.cm.exists
    /\ Number(ledger.cm.itemsRedeemed) = 3
    /\ ledger.cm.itemsLoaded = 3

\* C10: when the mint loop starts, its count does not exceed the remaining
\* supply on the ledger, also when creation or loading failed.
C10_MintCountWithinSupply ==
    (pc = "mintV1" /\ i = 0) => numMints <= RemainingSupply(ledger)

\* The lines of the output that checkCandyMachine wrote for step k.
CheckLines(k) == SelectSeq(log, LAMBDA line : line.step = k)

CheckCalls(k) == SelectSeq(calls, LAMBDA c : c.step = k /\ c.op = "fetchCandyMachine")

\* A call of checkCandyMachine changes neither the ledger (candy machine,
\* collection, assets, payer balance) nor the counters of main().
ReadOnly ==
    [][(Len(calls') > Len(calls) /\ calls'[Len(calls')].op = "fetchCandyMachine")
            => (ledger' = ledger /\ i' = i /\ minted' = minted)]_vars

\* C11, as stated: a call of checkCandyMachine changes neither the ledger nor
\* the counters of main(), and calls in a row on an unchanged ledger write
\* the same outcome each time.
C11_SameOutcomeEachTime ==
    /\ ReadOnly
    /\ [](pc = "verified" =>
            /\ Len(CheckLines(checkArgs.step)) = Len(CheckCalls(checkArgs.step))
            /\ \A n, m \in DOMAIN CheckLines(checkArgs.step) :
                CheckLines(checkArgs.step)[n] = CheckLines(checkArgs.step)[m])

\* C11, as the code has it: a call of checkCandyMachine changes neither the
\* ledger nor the counters of main(); of calls in a row on an unchanged
\* ledger, all those whose read of the account returns write the same
\* outcome, and each one whose read throws writes a failure, the same for the
\* same thrown value, whatever the calls before it wrote.
C11_VerificationReadOnly ==
    /\ ReadOnly
    /\ [](pc = "verified" =>
            LET reads == CheckCalls(checkArgs.step)
                lines == CheckLines(checkArgs.step)
            IN  /\ Len(lines) = Len(reads)
                /\ \A n, m \in DOMAIN reads :
                    /\ (reads[n].ok /\ reads[m].ok) => lines[n] = lines[m]
                    /\ (~reads[n].ok /\ reads[n].thrown = reads[m].thrown)
                            => lines[n] = lines[m]
                    /\ ~reads[n].ok => lines[n].mark = "fail")

C11_Witness ==
    /\ pc = "verified"
    /\ checkArgs.step = 7
    /\ Len(calls) = 3
    /\ calls[1].ok /\ ~calls[2].ok /\ calls[3].ok
    /\ ledger.cm.exists /\ ledger.balance = InitialBalance
    /\ log[1] = Line(7, "ok", TextCorrect, "")
    /\ log[2].mark = "fail"
    /\ log[3] = log[1]

Started(k) == k \in StepsStarted \/ \E n \in DOMAIN inflight : inflight[n].step = k

\* C12: steps start in the order 2, 3, ..., 8, none before the one before it
\* has completed; in the mint loop an iteration starts only when the mints
\* before it have returned; at most one ledger call is in flight.
C12_FixedOrderOneInFlight ==
    /\ Len(inflight) <= 1
    /\ \A n, m \in DOMAIN calls : n < m => calls[n].step <= calls[m].step
    /\ \A n \in DOMAIN inflight : \A m \in DOMAIN calls :
            calls[m].step <= inflight[n].step
    /\ \A k \in 3 .. 8 : Started(k) => (k - 1) \in StepsStarted /\ StepOf(pc) >= k
    /\ \A n \in DOMAIN inflight :
            inflight[n].op = "mintV1" =>
                /\ i = Cardinality(MintCalls)
                /\ \A m \in MintCalls : calls[m].ok

C12_Witness ==
    /\ pc = "mintV1"
    /\ i = 2
    /\ Len(inflight) = 1
    /\ inflight[1].op = "mintV1"
    /\ StepFailed(5) /\ ~StepFailed(4)

Submissions(op) ==
    Cardinality({n \in DOMAIN calls : calls[n].op = op})
        + Cardinality({n \in DOMAIN inflight : inflight[n].op = op})

\* C13, as stated: each of create collection, create candy machine, load
\* items and delete is submitted at most once in a run, and exactly once by
\* its end, rejected or not; the mint step makes at most numMints submissions.
C13_NoResubmission ==
    /\ \A k \in {2, 3, 4, 8} :
        /\ Submissions(OpOf(k)) <= 1
        /\ StepCompleted(k) => Submissions(OpOf(k)) = 1
    /\ Submissions("mintV1") <= numMints

\* C13, as the code has it: each of create collection, create candy machine,
\* load items and delete is submitted at most once in a run, rejected or not,
\* and the mint step makes at most numMints submissions; by the end of a step
\* its submission has been made exactly once, except that step 3 makes none
\* when the call that builds its transaction has thrown.
C13_AtMostOneSubmission ==
    /\ \A k \in {2, 3, 4, 8} :
        /\ Submissions(OpOf(k)) <= 1
        /\ StepCompleted(k) =>
                Submissions(OpOf(k)) = (IF k = 3 /\ BuildFailed THEN 0 ELSE 1)
    /\ Submissions("mintV1") <= numMints

C13_Witness ==
    /\ pc = "done"
    /\ BuildFailed
    /\ HasMarker(3, "fail")
    /\ Submissions(OpOf(3)) = 0
    /\ StepFailed(2) /\ StepFailed(4) /\ StepFailed(8)
    /\ \A k \in {2, 4, 8} : Submissions(OpOf(k)) = 1

\* main() has ended after submitting the deletion and reporting its outcome.
Terminal ==
    /\ pc = "done"
    /\ 8 \in StepsStarted
    /\ HasMarker(8, "ok") \/ HasMarker(8, "fail")

\* C14: once the wallet is loaded, every run in which each ledger call
\* returns reaches the terminal state, whatever failed on the way.
C14_RunsToTerminal == (pc = "createCollection") ~> Terminal

C14_Witness ==
    /\ Terminal
    /\ StepFailed(3)
    /\ StepFailed(5)
    /\ HasMarker(7, "fail")
    /\ StepFailed(8)

\* C15: a missing or malformed key file ends the script in loadWallet with
\* an error that names the wallet path, and no ledger call is ever made.
C15_WalletFailureIsFatal ==
    /\ pc = "aborted" <=> (wallet # "valid" /\ pc # "loadWallet")
    /\ wallet # "valid" =>
        /\ calls = <<>> /\ inflight = <<>> /\ ledger = EmptyLedger
        /\ createIx = NotBuilt
        /\ pc = "aborted" =>
            /\ fatal.text = "Failed to load wallet from"
            /\ fatal.path = defaultWalletPath(env)
            /\ fatal.cause = wallet
    /\ wallet = "valid" => fatal = NoFatal

C15_Witness ==
    /\ pc = "aborted"
    /\ wallet = "malformed"
    /\ env = [HOME |-> "", USERPROFILE |-> UserProfileDirectory]
    /\ fatal.path = "%USERPROFILE%/.config/solana/dev-wallet.json"
    /\ calls = <<>>

SummaryLines == {n \in DOMAIN log : log[n].text = TextSummary}

AllCallsSucceeded == \A n \in DOMAIN calls : calls[n].ok

\* What the run in which every ledger call succeeds comes to, the summary
\* apart: capacity 3, 3 lines loaded, both verifications passed, 3 mints,
\* the deletion confirmed, 3 assets of the created collection on the ledger.
EndToEndWithoutSummary ==
    /\ Cardinality(MintCalls) = 3 /\ minted = 3
    /\ HasMarker(3, "ok") /\ HasMarker(4, "ok")
    /\ CheckLines(5) = <<Line(5, "ok", TextCorrect, "")>>
    /\ HasMarker(6, "ok")
    /\ CheckLines(7) = <<Line(7, "ok", TextCorrect, "")>>
    /\ HasMarker(8, "ok")
    /\ Cardinality(ledger.assets) = 3
    /\ \A a \in ledger.assets : a.collection = collectionMint

\* C16: when every submission succeeds, the run creates the candy machine
\* with capacity 3, loads 3 lines, passes the post-load verification, mints
\* 3, passes the post-mint verification, deletes, and ends with a summary of
\* exactly 3 items, each with the created collection as its back-reference.
C16_EndToEndWithSummary ==
    (pc = "done" /\ AllCallsSucceeded) =>
        /\ EndToEndWithoutSummary
        /\ Cardinality(SummaryLines) = 3
        /\ \A n \in SummaryLines : log[n].detail.collection = collectionMint

\* Mint submissions made so far: those that have settled and the one awaited.
MintAttempts == Cardinality(MintCalls) + (IF Pending(6) THEN 1 ELSE 0)

\* C19: the number-minted counter is incremented only after a mint submission
\* was confirmed: at every point it equals the number of mint submissions that
\* succeeded so far, and minted <= mint submissions attempted <= N.
C19_MintedCountsConfirmed ==
    /\ minted = SuccessfulMints
    /\ minted <= MintAttempts
    /\ MintAttempts <= numMints

C19_Witness ==
    /\ minted = 2
    /\ Cardinality(MintCalls) = 3
    /\ StepFailed(6)

LoadSucceeded == \E n \in DOMAIN calls : calls[n].step = 4 /\ calls[n].ok

\* C20: after a successful load step the candy machine's itemsLoaded equals
\* the number of config lines inserted (3, from index 0) and the capacity set
\* at creation, and the post-load verification expects that value with
\* itemsRedeemed 0, the payer as authority and the created collection, so
\* that it passes whenever its fetch returns the account.
C20_LoadedIsExpected ==
    LoadSucceeded =>
        /\ ledger.cm.exists =>
            /\ ledger.cm.itemsLoaded = Len(configLines)
            /\ ledger.cm.itemsLoaded = ledger.cm.itemsAvailable
            /\ ledger.cm.itemsAvailable = itemsAvailable
        /\ checkArgs.step = 5 =>
            /\ checkArgs.expected =
                    Expected(Len(configLines), 0, keypair, collectionMint)
            /\ checkArgs.fetched.ok =>
                /\ checkArgs.fetched.account.itemsLoaded = checkArgs.expected.itemsLoaded
                /\ CheckLines(5) = <<Line(5, "ok", TextCorrect, "")>>

C20_Witness ==
    /\ LoadSucceeded
    /\ pc = "mintV1"
    /\ checkArgs.step = 5
    /\ checkArgs.fetched.ok
    /\ ledger.cm.itemsLoaded = 3
    /\ CheckLines(5) = <<Line(5, "ok", TextCorrect, "")>>

\* |a - b| of two naturals.
Distance(a, b) == IF Less(a, b) THEN Sub(b, a) ELSE Sub(a, b)

\* A double x is within half a base unit of n base units (n >= 0, |x| < 1):
\* | |x| * 10^9 - n | < 1/2, taken exactly.
WithinHalfUnit(x, n) ==
    IF x.m = <<>> THEN n = <<>>
    ELSE /\ x.e < 0
         /\ Less(Shl(Distance(Mul(x.m, Giga), Shl(n, 0 - x.e)), 1),
                 Shl(<<1>>, 0 - x.e))

\* C18: calculateCost(before, after) is before minus after in SOL: positive
\* exactly when the balance decreased, negative exactly when it increased,
\* 0 exactly when the two are equal, and, to floating-point tolerance (half
\* a base unit), the difference in base units over 10^9; so 5_000_000_000
\* and 4_998_000_000 give 0.002.
C18_CostIsDifference ==
    cost.returned =>
        LET before == cost.before.basisPoints
            after == cost.after.basisPoints
            result == cost.result
        IN  /\ (result.m # <<>> /\ ~result.neg) <=> Less(after, before)
            /\ (result.m # <<>> /\ result.neg) <=> Less(before, after)
            /\ (result.m = <<>>) <=> (before = after)
            /\ WithinHalfUnit(result, Distance(before, after))

C18_Witness ==
    /\ cost.returned
    /\ cost.before = SolAmount(5, 0)
    /\ cost.after = SolAmount(4, 998000000)
    /\ ~cost.result.neg
    /\ WithinHalfUnit(cost.result, BitsOf(2000000))

CollectionCreations ==
    {n \in DOMAIN calls : calls[n].op \in {"createCollection", "createCollectionV1"}}

RECURSIVE SumOfShares(_)
SumOfShares(creators) ==
    IF creators = <<>> THEN 0
    ELSE Head(creators).percentage + SumOfShares(Tail(creators))

ValidRoyalties(plugin) ==
    /\ SumOfShares(plugin.creators) = 100
    /\ plugin.basisPoints \in 0 .. 10000

\* C17: no royalty configuration whose creator shares do not sum to 100
\* reaches the ledger: every Royalties plugin submitted with a collection
\* creation, by any script and whatever the outcome of the submission, has
\* shares summing to 100 and basis points within 0 .. 10000.
C17_SubmittedRoyaltiesValid ==
    \A n \in CollectionCreations :
        \A k \in DOMAIN calls[n].plugins :
            calls[n].plugins[k].type = "Royalties" => ValidRoyalties(calls[n].plugins[k])

C17_Witness ==
    /\ script = "educore"
    /\ pc = "finished"
    /\ \E n \in CollectionCreations :
        /\ calls[n].ok
        /\ Len(calls[n].plugins[1].creators) = 2
        /\ ValidRoyalties(calls[n].plugins[1])

\* A run of main(), as against checkCandyMachine called on its own.
InMain == pc \notin {"verify", "verified"}

\* C21: a verification that finds a mismatch or cannot fetch is not fatal:
\* checkCandyMachine lets nothing escape to its caller, whatever the ledger
\* holds and whatever the read returns, so main() goes on: by the time it
\* is past step 6 after a failed post-load verification the mint was
\* attempted, and past step 8 after a failed post-mint verification the
\* deletion was.
C21_VerificationNonFatal ==
    /\ pc # "rejected"
    /\ InMain =>
        \A k \in {5, 7} :
            HasMarker(k, "fail") =>
                /\ StepOf(pc) > k
                /\ StepOf(pc) > k + 1 => (k + 1) \in StepsStarted

C21_Witness ==
    /\ pc = "done"
    /\ CheckLines(5) = <<Line(5, "fail", TextIncorrect, MsgItemsLoaded)>>
    /\ CheckLines(7) = <<Line(7, "fail", TextFetchError, "")>>
    /\ 6 \in StepsStarted
    /\ 8 \in StepsStarted

Markers(k, mark) == {n \in DOMAIN log : log[n].step = k /\ log[n].mark = mark}

\* C22: each of the steps 2, 3, 4, 6, 8 writes exactly one marker in a run,
\* the success marker or the failure marker and never both (none before the
\* step has ended); and the step-6 success marker is written only when all
\* N mint submissions succeeded, and then says N.
C22_OneMarkerPerStep ==
    /\ \A k \in MutatingSteps :
        Cardinality(Markers(k, "ok") \cup Markers(k, "fail")) =
            (IF StepCompleted(k) THEN 1 ELSE 0)
    /\ \A n \in Markers(6, "ok") :
        /\ log[n].detail = numMints
        /\ SuccessfulMints = numMints
        /\ Cardinality(MintCalls) = numMints

C22_Witness ==
    /\ pc = "done"
    /\ \A k \in {2, 3, 4, 6} : Cardinality(Markers(k, "ok")) = 1
    /\ log[Highest(Markers(6, "ok"))].detail = 3
    /\ Cardinality(Markers(8, "fail")) = 1
    /\ Markers(8, "ok") = {}

\* C23: checkCandyMachine writes its outcome (success, mismatch or fetch
\* error) only when given a step index other than 0: called without one, or
\* with 0, it writes nothing, whatever the candy machine account and the
\* read outcome, and nothing else tells its caller how the check went.
C23_SilentWithoutStep ==
    pc = "verified" =>
        IF checkArgs.step \in {NoStep, 0}
            THEN log = <<>>
            ELSE /\ Len(log) = 1
                 /\ log[1].step = checkArgs.step
                 /\ log[1].mark \in {"ok", "fail"}

C23_Witness ==
    /\ pc = "verified"
    /\ checkArgs.step = 0
    /\ checkArgs.fetched.ok
    /\ Compare(checkArgs.fetched.account, checkArgs.expected) = NewError(MsgAuthority)
    /\ log = <<>>

\* C24: when the creation of the candy machine (step 3) fails, so that no
\* candy machine account exists, neither verification reports success, no
\* mint is counted, and the ledger holds no asset of the collection, up to
\* and at the end of the run.
C24_NothingWithoutCandyMachine ==
    StepFailed(3) =>
        /\ ~ledger.cm.exists
        /\ ~HasMarker(5, "ok")
        /\ ~HasMarker(7, "ok")
        /\ minted = 0
        /\ SuccessfulMints = 0
        /\ {a \in ledger.assets : a.collection = collectionMint} = {}

C24_Witness ==
    /\ pc = "done"
    /\ ~StepFailed(2)
    /\ StepFailed(3)
    /\ HasMarker(5, "fail")
    /\ StepFailed(6)
    /\ HasMarker(7, "fail")
    /\ minted = 0
    /\ ledger.assets = {}

AssetCreations == {n \in DOMAIN calls : calls[n].op \in {"create", "createV1"}}

DeploymentSummary ==
    {n \in DOMAIN log : log[n].text \in {"Deployment summary:", TextSummary}}

\* C25: the steps of the collection scripts (core-collection.ts and
\* create-collection.ts) are not isolated from each other's failures: once
\* the submission that creates the collection has failed, the creation of the
\* asset is never submitted and the deployment summary is never written; and
\* the creation of the asset is submitted only after a confirmed creation of
\* the collection.
C25_CollectionFailureStopsScript ==
    script \in {"core-collection", "create-collection"} =>
        /\ (\E m \in CollectionCreations : ~calls[m].ok) =>
                /\ pc = "rejected"
                /\ AssetCreations = {}
                /\ DeploymentSummary = {}
        /\ \A n \in AssetCreations :
                \E m \in CollectionCreations : m < n /\ calls[m].ok

C25_Witness ==
    /\ script = "create-collection"
    /\ pc = "rejected"
    /\ Len(calls) = 2
    /\ calls[1].op = "getBalance" /\ calls[1].ok
    /\ calls[2].op = "createCollectionV1" /\ ~calls[2].ok
    /\ log[Len(log)] = ConsoleError(calls[2].thrown)
    /\ ~ledger.collection

BalanceReads == {n \in DOMAIN calls : calls[n].op = "getBalance"}

TransferSubmissions == {n \in DOMAIN calls : calls[n].op = "transferV1"}

\* C26: transferNFT reads the payer's balance once before and once after its
\* one transfer submission and returns calculateCost of those two readings;
\* when the transfer submission fails, the failure reaches the caller, the
\* balance is not read again and no cost is returned.
C26_TransferCostOfTwoSamples ==
    /\ Cardinality(TransferSubmissions) <= 1
    /\ cost.returned <=> pc = "returned"
    /\ pc = "returned" =>
        /\ Len(calls) = 3
        /\ BalanceReads = {1, 3}
        /\ TransferSubmissions = {2}
        /\ \A n \in 1 .. 3 : calls[n].ok
        /\ cost.result = calculateCost(calls[1].value, calls[3].value)
        /\ log[Len(log)] = Line(0, "none", "Transfer cost:", cost.result)
    /\ \A n \in TransferSubmissions :
        ~calls[n].ok =>
            /\ pc = "rejected"
            /\ Len(calls) = n
            /\ BalanceReads = {1}
            /\ ~cost.returned
            /\ ledger \in TransferLedgers

C26_Witness ==
    /\ pc = "returned"
    /\ calls[1].value = SolAmount(5, 0)
    /\ calls[3].value = SolAmount(4, 998000000)
    /\ cost.returned
    /\ WithinHalfUnit(cost.result, BitsOf(2000000))
    /\ \E a \in ledger.assets : a.asset = asset /\ a.owner = recipientAddress

====
